---- MODULE Spec2Model ----
(***************************************************************************)
(* Order-processing saga of chicken-be: the InventoryService ledger, the    *)
(* PaymentService ledger, the activities of createOrderActivities and the   *)
(* orchestration processOrderWorkflow.                                      *)
(***************************************************************************)
EXTENDS Integers, Sequences, FiniteSets, TLC

\* ------------------------------------------------------------------ bounds
MaxStock == 2      \* largest initial quantity of an inventory row
MaxQty == 2        \* largest quantity of one item of a batch
MaxLost == 1       \* failed attempts of a run that leave an effect behind

\* ------------------------------------------------------------- value sets
Products == {"pA", "pB"}
Callers == {"c1", "c2", "c3"}

\* StockUpdateItem {productId, quantity}; a quantity of 0 is the non-positive
\* quantity decreaseStock / increaseStock skip.
StockUpdateItem == [productId : Products, quantity : 0..MaxQty]

\* The InventoryItem tables a run starts from: a function from the products
\* that have a row to the row's quantity.
InventoryTables ==
    UNION {[S -> 0..MaxStock] : S \in SUBSET Products}

\* Lengths of the batches a direct caller passes: no item, one item, two items.
BatchLengths == {0, 1, 2}

VARIABLES
    inventory,   \* InventoryItem table: product with a row |-> quantity
    inv0,        \* the table at the start (history)
    granted,     \* per product, the quantities of the committed decreases (history)
    restored,    \* per product, the quantities of the committed increases (history)
    tx,          \* per caller: the prisma.$transaction of its stock call
    uniqueExtId, \* the database enforces @unique on externalTransactionId
    input,       \* per run: OrderProcessingWorkflowInput.items
    wf,          \* per run: position and locals of processOrderWorkflow
    orders,      \* per run: the Order rows its createPendingOrder created
    pay,         \* per run: PaymentTransaction rows of its order, and the gateway
    sent,        \* per run: what NotificationService delivered
    log,         \* per run: what the run did so far (history)
    api          \* the Product catalog and, per client, its calls of OrderService

invVars == <<inventory, inv0, granted, restored, tx>>
sagaVars == <<uniqueExtId, input, wf, orders, pay, sent, log, api>>
vars == <<inventory, inv0, granted, restored, tx,
          uniqueExtId, input, wf, orders, pay, sent, log, api>>

\* -------------------------------------------------------- InventoryService
ZeroDelta == [p \in Products |-> 0]

\* op: decreaseStock ("dec") or increaseStock ("inc"); n: items.length;
\* done: the items whose promise resolved; delta: the uncommitted writes;
\* matched / missing: some updateMany returned count > 0 / count = 0.
IdleTx ==
    [op |-> "none", n |-> 0, done |-> {}, delta |-> ZeroDelta,
     matched |-> FALSE, missing |-> FALSE, phase |-> "idle"]

\* The transaction closed (committed or rolled back) with the call's outcome:
\* "ok" (resolved), "insufficient" (InsufficientStockError) or "error"
\* (InternalServerErrorException); its uncommitted writes are gone.
Finished(t, outcome) ==
    [t EXCEPT !.n = 0, !.done = {}, !.delta = ZeroDelta, !.phase = outcome]

\* Rows written and not yet committed by caller c: their row locks.
LockedBy(c) ==
    IF tx[c].phase = "open" THEN {p \in Products : tx[c].delta[p] # 0} ELSE {}

LockedByOther(c, p) == \E d \in Callers \ {c} : p \in LockedBy(d)

\* What a statement of c's transaction reads of row p: the committed row plus
\* the transaction's own writes.
TxView(c, p) == inventory[p] + tx[c].delta[p]

\* A where clause without the quantity comparison (an unconditional decrement).
DecrementUnchecked(c, p, q) == p \in DOMAIN inventory

\* where: { productId, quantity: { gte: q } } of the conditional updateMany.
DecrementMatches(c, p, q) == p \in DOMAIN inventory /\ TxView(c, p) >= q

\* decreaseStock / increaseStock entered with a batch of n items: the empty
\* batch returns at once, any other opens the transaction.
BeginStock(c, op, n) ==
    /\ tx[c].phase = "idle"
    /\ tx' = [tx EXCEPT ![c] =
                [IdleTx EXCEPT !.op = op, !.n = n,
                               !.phase = IF n = 0 THEN "ok" ELSE "open"]]
    /\ UNCHANGED <<inventory, inv0, granted, restored>>

\* The item's update written outside the transaction: a later failure of the
\* batch cannot take it back.
DecreaseItemAutocommit(c, i, item) ==
    /\ tx[c].phase = "open" /\ tx[c].op = "dec"
    /\ i \in (1..tx[c].n) \ tx[c].done
    /\ LET p == item.productId
           q == item.quantity
       IN  IF q > 0 /\ p \in DOMAIN inventory /\ inventory[p] >= q
           THEN /\ inventory' = [inventory EXCEPT ![p] = @ - q]
                /\ tx' = [tx EXCEPT ![c].done = @ \cup {i}, ![c].matched = TRUE]
           ELSE /\ inventory' = inventory
                /\ tx' = IF q <= 0
                         THEN [tx EXCEPT ![c].done = @ \cup {i}]
                         ELSE [tx EXCEPT ![c] = Finished(tx[c], "insufficient")]
    /\ UNCHANGED <<inv0, granted, restored>>

\* Item i of decreaseStock's Promise.all: skipped when quantity <= 0, else the
\* conditional updateMany; count = 0 throws InsufficientStockError and the
\* transaction rolls back.
DecreaseItem(c, i, item) ==
    /\ tx[c].phase = "open" /\ tx[c].op = "dec"
    /\ i \in (1..tx[c].n) \ tx[c].done
    /\ LET p == item.productId
           q == item.quantity
       IN  IF q <= 0
           THEN tx' = [tx EXCEPT ![c].done = @ \cup {i}]
           ELSE IF DecrementMatches(c, p, q)
           THEN /\ ~LockedByOther(c, p)
                /\ tx' = [tx EXCEPT ![c].done = @ \cup {i},
                                    ![c].delta[p] = @ - q,
                                    ![c].matched = TRUE]
           ELSE tx' = [tx EXCEPT ![c] = Finished(tx[c], "insufficient")]
    /\ UNCHANGED <<inventory, inv0, granted, restored>>

\* An increment by one whatever the item's quantity.
IncreaseItemByOne(c, i, item) ==
    /\ tx[c].phase = "open" /\ tx[c].op = "inc"
    /\ i \in (1..tx[c].n) \ tx[c].done
    /\ LET p == item.productId
       IN  IF item.quantity <= 0
           THEN tx' = [tx EXCEPT ![c].done = @ \cup {i}]
           ELSE IF p \in DOMAIN inventory
           THEN /\ ~LockedByOther(c, p)
                /\ tx' = [tx EXCEPT ![c].done = @ \cup {i},
                                    ![c].delta[p] = @ + 1,
                                    ![c].matched = TRUE]
           ELSE tx' = [tx EXCEPT ![c].done = @ \cup {i},
                                 ![c].missing = TRUE]
    /\ UNCHANGED <<inventory, inv0, granted, restored>>

\* An increase that throws when its updateMany matched no row.
IncreaseItemStrict(c, i, item) ==
    /\ tx[c].phase = "open" /\ tx[c].op = "inc"
    /\ i \in (1..tx[c].n) \ tx[c].done
    /\ LET p == item.productId
           q == item.quantity
       IN  IF q <= 0
           THEN tx' = [tx EXCEPT ![c].done = @ \cup {i}]
           ELSE IF p \in DOMAIN inventory
           THEN /\ ~LockedByOther(c, p)
                /\ tx' = [tx EXCEPT ![c].done = @ \cup {i},
                                    ![c].delta[p] = @ + q,
                                    ![c].matched = TRUE]
           ELSE tx' = [tx EXCEPT ![c] =
                         Finished([tx[c] EXCEPT !.missing = TRUE], "error")]
    /\ UNCHANGED <<inventory, inv0, granted, restored>>

\* Item i of increaseStock's Promise.all: skipped when quantity <= 0, else the
\* unconditional increment; count = 0 (no row) is only logged.
IncreaseItem(c, i, item) ==
    /\ tx[c].phase = "open" /\ tx[c].op = "inc"
    /\ i \in (1..tx[c].n) \ tx[c].done
    /\ LET p == item.productId
           q == item.quantity
       IN  IF q <= 0
           THEN tx' = [tx EXCEPT ![c].done = @ \cup {i}]
           ELSE IF p \in DOMAIN inventory
           THEN /\ ~LockedByOther(c, p)
                /\ tx' = [tx EXCEPT ![c].done = @ \cup {i},
                                    ![c].delta[p] = @ + q,
                                    ![c].matched = TRUE]
           ELSE tx' = [tx EXCEPT ![c].done = @ \cup {i},
                                 ![c].missing = TRUE]
    /\ UNCHANGED <<inventory, inv0, granted, restored>>

\* The table after the transaction's writes are applied.
Applied(c) ==
    [p \in DOMAIN inventory |-> inventory[p] + tx[c].delta[p]]

\* Every promise of Promise.all resolved: the transaction commits.
CommitStock(c) ==
    /\ tx[c].phase = "open"
    /\ tx[c].done = 1..tx[c].n
    /\ inventory' = Applied(c)
    /\ granted' = [p \in Products |->
                     granted[p] + IF tx[c].op = "dec" THEN 0 - tx[c].delta[p] ELSE 0]
    /\ restored' = [p \in Products |->
                      restored[p] + IF tx[c].op = "inc" THEN tx[c].delta[p] ELSE 0]
    /\ tx' = [tx EXCEPT ![c] = Finished(tx[c], "ok")]
    /\ UNCHANGED inv0

\* A database error inside the transaction (connection lost, deadlock victim):
\* rollback, InternalServerErrorException.
AbortStock(c) ==
    /\ tx[c].phase = "open"
    /\ tx' = [tx EXCEPT ![c] = Finished(tx[c], "error")]
    /\ UNCHANGED <<inventory, inv0, granted, restored>>

\* ---------------------------------------------------------- PaymentService
\* The PaymentTransaction rows of one order (by: who created the row; ext: the
\* externalTransactionId, 0 for null; hist: the statuses the row has had) with
\* the mock gateway's ledger: the charges it accepted and the refunds it
\* executed.
EmptyLedger == [rows |-> <<>>, charges |-> 0, refunds |-> 0]

NewRow(by) == [by |-> by, status |-> "PENDING", ext |-> 0, hist |-> <<"PENDING">>]

SetStatus(L, r, st) ==
    [L EXCEPT !.rows[r].status = st,
              !.rows[r].hist = IF L.rows[r].status = st THEN @ ELSE Append(@, st)]

\* PaymentService.charge. accept: isPaymentSuccessful; fault: the database call
\* that throws ("svcCreate", "svcUpdate") if any. Gives the ledger after the
\* call, what the call raised ("ok" when it returned) and the transactionId.
SvcCharge(L, accept, fault) ==
    IF fault = "svcCreate"
    THEN [L |-> L, res |-> "InternalServerErrorException", ext |-> 0]
    ELSE LET s  == Len(L.rows) + 1
             L1 == [L EXCEPT !.rows = Append(@, NewRow("service"))]
             k  == L.charges + 1
             L2 == [L1 EXCEPT !.charges = k]
         IN  IF accept
             THEN IF fault = "svcUpdate"
                  THEN [L |-> L2, res |-> "InternalServerErrorException", ext |-> 0]
                  ELSE [L |-> [SetStatus(L2, s, "SUCCEEDED") EXCEPT !.rows[s].ext = k],
                        res |-> "ok", ext |-> k]
             ELSE [L |-> IF fault = "svcUpdate" THEN L1 ELSE SetStatus(L1, s, "FAILED"),
                   res |-> "PaymentFailedError", ext |-> 0]

\* PaymentService.refund of row r. gwOk: isRefundSuccessful; fault: the
\* database call that throws ("find", "init", "final") if any.
SvcRefund(L, r, gwOk, fault) ==
    IF fault = "find"
    THEN [L |-> L, res |-> "InternalServerErrorException"]
    ELSE IF r \notin 1..Len(L.rows)
    THEN [L |-> L, res |-> "Error"]
    ELSE IF L.rows[r].status # "SUCCEEDED"
    THEN [L |-> L, res |-> "ok"]
    ELSE IF fault = "init"
    THEN [L |-> L, res |-> "InternalServerErrorException"]
    ELSE LET L1 == SetStatus(L, r, "REFUND_INITIATED")
             L2 == [L1 EXCEPT !.refunds = @ + 1]
         IN  IF gwOk
             THEN IF fault = "final"
                  THEN [L |-> L2, res |-> "InternalServerErrorException"]
                  ELSE [L |-> SetStatus(L2, r, "REFUNDED"), res |-> "ok"]
             ELSE [L |-> IF fault = "final" THEN L1
                                            ELSE SetStatus(L1, r, "REFUND_FAILED"),
                   res |-> "Error"]

\* -------------------------------------------- createOrderActivities: payment
\* The update of row a to externalTransactionId ext violates the unique index
\* when another row already carries ext.
ExtIdTaken(L, a, ext, unique) ==
    unique /\ \E i \in 1..Len(L.rows) : i # a /\ L.rows[i].ext = ext

\* chargePayment. fault: as for SvcCharge, or "actUpdate" (the update to
\* SUCCEEDED throws); catchFault: the update to FAILED in the catch throws.
\* rid: the paymentRecordId returned.
ActChargePayment(L, accept, fault, catchFault, unique) ==
    LET a  == Len(L.rows) + 1
        L1 == [L EXCEPT !.rows = Append(@, NewRow("activity"))]
        S  == SvcCharge(L1, accept, fault)
    IN  IF S.res = "ok" /\ fault # "actUpdate" /\ ~ExtIdTaken(S.L, a, S.ext, unique)
        THEN [L |-> [SetStatus(S.L, a, "SUCCEEDED") EXCEPT !.rows[a].ext = S.ext],
              res |-> "ok", rid |-> a]
        ELSE IF catchFault
        THEN [L |-> S.L, res |-> "Error", rid |-> 0]
        ELSE [L |-> SetStatus(S.L, a, "FAILED"), res |-> "PaymentFailedError", rid |-> 0]

\* refundPayment of row r. fault: as for SvcRefund, or "actFinal" (the update
\* to REFUNDED throws); catchFault: the update to REFUND_FAILED throws.
ActRefundPayment(L, r, gwOk, fault, catchFault) ==
    LET L1 == SetStatus(L, r, "REFUND_INITIATED")
        S  == SvcRefund(L1, r, gwOk, fault)
    IN  IF S.res = "ok" /\ fault # "actFinal"
        THEN [L |-> SetStatus(S.L, r, "REFUNDED"), res |-> "ok"]
        ELSE IF catchFault
        THEN [L |-> S.L, res |-> "Error"]
        ELSE [L |-> SetStatus(S.L, r, "REFUND_FAILED"), res |-> "Error"]

\* ------------------------------------------------------ processOrderWorkflow
\* The steps the orchestration awaits; updateOrderStatus appears once per call
\* site, the compensation proxy's call as "compStatus".
ForwardSteps ==
    {"createPendingOrder", "markProcessing", "chargePayment", "markPaid",
     "decreaseInventory", "markAwaiting", "notifyKitchen", "sendConfirmation",
     "markCompleted"}

CompSteps == {"refundPayment", "restoreInventory", "compStatus", "failureEmail"}

Steps == ForwardSteps \cup CompSteps

\* retry.maximumAttempts of the two proxyActivities configurations.
ForwardMaxAttempts == 5
CompMaxAttempts == 10

\* One policy, the compensation proxy's, for every step.
MaxAttemptsUniform(step) == CompMaxAttempts

MaxAttempts(step) ==
    IF step \in CompSteps THEN CompMaxAttempts ELSE ForwardMaxAttempts

\* A retry policy without nonRetryableErrorTypes.
NonRetryableNone(step, err) == FALSE

\* retry.nonRetryableErrorTypes: set for the forward proxy only.
NonRetryable(step, err) ==
    step \in ForwardSteps /\ err \in {"PaymentFailedError", "InsufficientStockError"}

\* The locals of processOrderWorkflow at its start; pc is the step awaited,
\* attempt the attempt of that step now running.
IdleWf ==
    [pc |-> "idle", attempt |-> 0, orderId |-> FALSE, paymentRecordId |-> 0,
     inventoryUpdated |-> FALSE, finalStatus |-> "PENDING",
     failureReason |-> "Unknown Workflow Failure"]

\* A classifier that knows no business failure.
ClassifyGeneric(cause) ==
    [status |-> "CANCELLED", reason |-> "Activity execution failed"]

\* The catch block's classification of an ActivityFailure by its cause.
\* A classifier with the two business statuses exchanged.
ClassifySwapped(cause) ==
    IF cause = "PaymentFailedError"
    THEN [status |-> "INVENTORY_CHECK_FAILED",
          reason |-> "One or more items are out of stock."]
    ELSE IF cause = "InsufficientStockError"
    THEN [status |-> "PAYMENT_FAILED", reason |-> "Payment was declined or failed."]
    ELSE [status |-> "CANCELLED", reason |-> "Activity execution failed"]

Classify(cause) ==
    IF cause = "PaymentFailedError"
    THEN [status |-> "PAYMENT_FAILED", reason |-> "Payment was declined or failed."]
    ELSE IF cause = "InsufficientStockError"
    THEN [status |-> "INVENTORY_CHECK_FAILED",
          reason |-> "One or more items are out of stock."]
    ELSE IF cause = "CancelledFailure"
    THEN [status |-> "CANCELLED", reason |-> "Workflow was cancelled."]
    ELSE [status |-> "CANCELLED", reason |-> "Activity execution failed"]

\* Guards that always let the compensation through.
CompensateAlways(rec) == TRUE
RestoreAlways(rec) == TRUE
RefundAlways(rec) == TRUE

\* if (orderId), if (paymentRecordId), if (inventoryUpdated) of the catch block.
CompensationPossible(rec) == rec.orderId
RefundDue(rec) == rec.paymentRecordId # 0
RestoreDue(rec) == rec.inventoryUpdated

\* A continuation that keeps, in a local, whether the step before needed more
\* than one attempt: something the recorded results do not tell.
ThenTimed(rec, step) ==
    [rec EXCEPT !.pc = step, !.attempt = 1,
                !.failureReason = IF rec.attempt > 1 THEN "Slow step" ELSE @]

\* The orchestration goes on to await the given step (its first attempt).
Then(rec, step) == [rec EXCEPT !.pc = step, !.attempt = 1]

\* Call sites of which the one after the charge passes a stale status.
StatusArgStale(rec) ==
    CASE rec.pc = "markProcessing" -> "PROCESSING"
      [] rec.pc = "markPaid"       -> "PROCESSING"
      [] rec.pc = "markAwaiting"   -> "AWAITING_FULFILLMENT"
      [] rec.pc = "markCompleted"  -> "COMPLETED"
      [] rec.pc = "compStatus"     -> rec.finalStatus

\* Call sites of which the compensation's passes CANCELLED whatever the failure.
StatusArgCancelled(rec) ==
    CASE rec.pc = "markProcessing" -> "PROCESSING"
      [] rec.pc = "markPaid"       -> "PAID"
      [] rec.pc = "markAwaiting"   -> "AWAITING_FULFILLMENT"
      [] rec.pc = "markCompleted"  -> "COMPLETED"
      [] rec.pc = "compStatus"     -> "CANCELLED"

\* The status each updateOrderStatus call site passes.
StatusArg(rec) ==
    CASE rec.pc = "markProcessing" -> "PROCESSING"
      [] rec.pc = "markPaid"       -> "PAID"
      [] rec.pc = "markAwaiting"   -> "AWAITING_FULFILLMENT"
      [] rec.pc = "markCompleted"  -> "COMPLETED"
      [] rec.pc = "compStatus"     -> rec.finalStatus

\* A forward sequence that reserves the stock before it charges.
ResolvedStockFirst(rec, rid) ==
    CASE rec.pc = "createPendingOrder" ->
           Then([rec EXCEPT !.orderId = TRUE], "markProcessing")
      [] rec.pc = "markProcessing" ->
           Then([rec EXCEPT !.finalStatus = "PROCESSING"], "decreaseInventory")
      [] rec.pc = "decreaseInventory" ->
           Then([rec EXCEPT !.inventoryUpdated = TRUE], "chargePayment")
      [] rec.pc = "chargePayment" ->
           Then([rec EXCEPT !.paymentRecordId = rid], "markPaid")
      [] rec.pc = "markPaid" ->
           Then([rec EXCEPT !.finalStatus = "PAID"], "markAwaiting")
      [] rec.pc = "markAwaiting" ->
           Then([rec EXCEPT !.finalStatus = "AWAITING_FULFILLMENT"], "notifyKitchen")
      [] rec.pc = "notifyKitchen" -> Then(rec, "sendConfirmation")
      [] rec.pc = "sendConfirmation" -> Then(rec, "markCompleted")
      [] rec.pc = "markCompleted" ->
           [rec EXCEPT !.finalStatus = "COMPLETED", !.pc = "returned"]
      [] rec.pc = "refundPayment" ->
           Then(rec, IF RestoreDue(rec) THEN "restoreInventory" ELSE "compStatus")
      [] rec.pc = "restoreInventory" -> Then(rec, "compStatus")
      [] rec.pc = "compStatus" -> Then(rec, "failureEmail")
      [] rec.pc = "failureEmail" -> [rec EXCEPT !.pc = "returned"]

\* The awaited step resolved (rid: the paymentRecordId chargePayment returned):
\* the orchestration runs on to its next await, or returns.
Resolved(rec, rid) ==
    CASE rec.pc = "createPendingOrder" ->
           Then([rec EXCEPT !.orderId = TRUE], "markProcessing")
      [] rec.pc = "markProcessing" ->
           Then([rec EXCEPT !.finalStatus = "PROCESSING"], "chargePayment")
      [] rec.pc = "chargePayment" ->
           Then([rec EXCEPT !.paymentRecordId = rid], "markPaid")
      [] rec.pc = "markPaid" ->
           Then([rec EXCEPT !.finalStatus = "PAID"], "decreaseInventory")
      [] rec.pc = "decreaseInventory" ->
           Then([rec EXCEPT !.inventoryUpdated = TRUE], "markAwaiting")
      [] rec.pc = "markAwaiting" ->
           Then([rec EXCEPT !.finalStatus = "AWAITING_FULFILLMENT"], "notifyKitchen")
      [] rec.pc = "notifyKitchen" -> Then(rec, "sendConfirmation")
      [] rec.pc = "sendConfirmation" -> Then(rec, "markCompleted")
      [] rec.pc = "markCompleted" ->
           [rec EXCEPT !.finalStatus = "COMPLETED", !.pc = "returned"]
      [] rec.pc = "refundPayment" ->
           Then(rec, IF RestoreDue(rec) THEN "restoreInventory" ELSE "compStatus")
      [] rec.pc = "restoreInventory" -> Then(rec, "compStatus")
      [] rec.pc = "compStatus" -> Then(rec, "failureEmail")
      [] rec.pc = "failureEmail" -> [rec EXCEPT !.pc = "returned"]

\* An inner catch that only logs: a rejected compensation step ends the run in
\* the normal return.
RejectedSwallowed(rec, cause) ==
    IF rec.pc \in CompSteps
    THEN [rec EXCEPT !.pc = "returned"]
    ELSE LET c  == Classify(cause)
             r1 == [rec EXCEPT !.finalStatus = c.status, !.failureReason = c.reason]
         IN  IF CompensationPossible(r1)
             THEN Then(r1, IF RefundDue(r1) THEN "refundPayment"
                           ELSE IF RestoreDue(r1) THEN "restoreInventory"
                           ELSE "compStatus")
             ELSE [r1 EXCEPT !.pc = "returned"]

\* An orchestration without the catch block: any rejection is raised.
RejectedUncaught(rec, cause) == [rec EXCEPT !.pc = "raised"]

\* The awaited step rejected with an ActivityFailure of the given cause: a
\* forward step enters the catch block, a compensation step the inner catch,
\* which throws.
Rejected(rec, cause) ==
    IF rec.pc \in CompSteps
    THEN [rec EXCEPT !.pc = "raised"]
    ELSE LET c  == Classify(cause)
             r1 == [rec EXCEPT !.finalStatus = c.status, !.failureReason = c.reason]
         IN  IF CompensationPossible(r1)
             THEN Then(r1, IF RefundDue(r1) THEN "refundPayment"
                           ELSE IF RestoreDue(r1) THEN "restoreInventory"
                           ELSE "compStatus")
             ELSE [r1 EXCEPT !.pc = "returned"]

\* One attempt of the awaited step ended with outcome "ok" or the name of the
\* error it threw: resolve, retry under the proxy's policy, or reject.
Settled(rec, outcome, rid) ==
    IF outcome = "ok" THEN Resolved(rec, rid)
    ELSE IF NonRetryable(rec.pc, outcome) THEN Rejected(rec, outcome)
    ELSE IF rec.attempt < MaxAttempts(rec.pc) THEN [rec EXCEPT !.attempt = @ + 1]
    ELSE Rejected(rec, outcome)

\* History of a run: the steps scheduled in order, the steps that resolved,
\* the forward step whose failure entered the catch block and its cause, the
\* compensation step that failed, the failed attempts that left an effect, and
\* the paymentRecordId the engine recorded as chargePayment's result.
EmptyLog ==
    [sched |-> <<>>, ok |-> {}, failedStep |-> "none", cause |-> "none",
     compFailed |-> "none", lost |-> 0, rid |-> 0]

Logged(l, rec, nxt, outcome, residue) ==
    LET l1 == IF nxt.pc # rec.pc /\ nxt.pc \in Steps
              THEN [l EXCEPT !.sched = Append(@, nxt.pc)] ELSE l
        l2 == IF outcome = "ok" THEN [l1 EXCEPT !.ok = @ \cup {rec.pc}] ELSE l1
        l3 == IF outcome # "ok" /\ nxt.pc # rec.pc
              THEN IF rec.pc \in CompSteps
                   THEN [l2 EXCEPT !.compFailed = rec.pc]
                   ELSE [l2 EXCEPT !.failedStep = rec.pc, !.cause = outcome]
              ELSE l2
    IN  IF residue THEN [l3 EXCEPT !.lost = @ + 1] ELSE l3

\* The engine records the value a step resolved with.
Recorded(l, rec, outcome, rid) ==
    IF outcome = "ok" /\ rec.pc = "chargePayment" THEN [l EXCEPT !.rid = rid] ELSE l

\* An attempt of run w's awaited step ends. residue: the attempt failed after
\* its effect (result lost, or a write left behind).
Settle(w, outcome, rid, residue) ==
    /\ residue => log[w].lost < MaxLost
    /\ wf' = [wf EXCEPT ![w] = Settled(wf[w], outcome, rid)]
    /\ log' = [log EXCEPT ![w] =
                 Recorded(Logged(log[w], wf[w], Settled(wf[w], outcome, rid),
                                 outcome, residue),
                          wf[w], outcome, rid)]

\* A completed attempt whose result may be lost on the way to the engine.
Reported(lost) == IF lost THEN "Error" ELSE "ok"

\* ------------------------------------------------------------ the saga's steps
OrderItems == [productId : Products, quantity : 1..MaxQty]

OrderBatches ==
    {<<>>} \cup {<<a>> : a \in OrderItems}
           \cup {<<a, b>> : a \in OrderItems, b \in OrderItems}

\* rows: how many Order rows the run created; status, hist, workflowId: the
\* columns of the row the run works on ("null" for a column left unset).
NoOrder == [rows |-> 0, status |-> "none", hist |-> <<>>, workflowId |-> "null"]
NothingSent == [kitchen |-> FALSE, confirmation |-> FALSE, failure |-> "none"]

\* A status update that does not reach the row.
WriteStatusDropped(o, st) == o

\* prisma.order.update({ data: { status } }) on the run's order row.
WriteStatus(o, st) ==
    [o EXCEPT !.status = st,
              !.hist = IF o.status = st THEN @ ELSE Append(@, st)]

\* OrderService.createOrder starts the workflow with the items of the request.
StartWorkflow(w) ==
    /\ wf[w].pc = "idle"
    /\ \E items \in OrderBatches : input' = [input EXCEPT ![w] = items]
    /\ wf' = [wf EXCEPT ![w] = Then(IdleWf, "createPendingOrder")]
    /\ log' = [log EXCEPT ![w].sched = <<"createPendingOrder">>]
    /\ UNCHANGED <<invVars, uniqueExtId, api, orders, pay, sent>>

\* An attempt fails before the step's first write (worker or database
\* unavailable, timeout).
AttemptFails(w) ==
    /\ wf[w].pc \in Steps
    /\ tx[w].phase = "idle"
    /\ Settle(w, "Error", 0, FALSE)
    /\ UNCHANGED <<invVars, uniqueExtId, api, input, orders, pay, sent>>

CreatePendingOrder(w) ==
    /\ wf[w].pc = "createPendingOrder"
    /\ \E lost \in BOOLEAN :
         /\ orders' = [orders EXCEPT ![w] =
                         IF lost THEN [@ EXCEPT !.rows = @ + 1]
                         ELSE [rows |-> @.rows + 1, status |-> "PENDING",
                               hist |-> <<"PENDING">>, workflowId |-> "null"]]
         /\ Settle(w, Reported(lost), 0, lost)
    /\ UNCHANGED <<invVars, uniqueExtId, api, input, pay, sent>>

UpdateOrderStatus(w) ==
    /\ wf[w].pc \in {"markProcessing", "markPaid", "markAwaiting", "markCompleted",
                     "compStatus"}
    /\ orders' = [orders EXCEPT ![w] = WriteStatus(@, StatusArg(wf[w]))]
    /\ \E lost \in BOOLEAN : Settle(w, Reported(lost), 0, lost)
    /\ UNCHANGED <<invVars, uniqueExtId, api, input, pay, sent>>

ChargePayment(w) ==
    /\ wf[w].pc = "chargePayment"
    /\ \E accept \in BOOLEAN, fault \in {"none", "svcCreate", "svcUpdate", "actUpdate"},
          catchFault \in BOOLEAN, lost \in BOOLEAN :
         LET R == ActChargePayment(pay[w], accept, fault, catchFault, uniqueExtId)
         IN  /\ lost => R.res = "ok"
             /\ pay' = [pay EXCEPT ![w] = R.L]
             /\ Settle(w, IF lost THEN "Error" ELSE R.res, R.rid,
                       lost \/ R.res = "Error")
    /\ UNCHANGED <<invVars, uniqueExtId, api, input, orders, sent>>

\* validateAndDecreaseInventory: decreaseStock(items) in its transaction.
DecreaseBegin(w) ==
    /\ wf[w].pc = "decreaseInventory"
    /\ BeginStock(w, "dec", Len(input[w]))
    /\ UNCHANGED sagaVars

DecreaseStep(w) ==
    /\ wf[w].pc = "decreaseInventory"
    /\ \E i \in 1..Len(input[w]) : DecreaseItem(w, i, input[w][i])
    /\ UNCHANGED sagaVars

\* The activity ends: resolved, or InsufficientStockError (thrown by
\* decreaseStock, or wrapping its InternalServerErrorException).
DecreaseEnd(w) ==
    /\ wf[w].pc = "decreaseInventory"
    /\ tx[w].phase \in {"ok", "insufficient", "error"}
    /\ tx' = [tx EXCEPT ![w] = IdleTx]
    /\ \E lost \in BOOLEAN :
         /\ lost => tx[w].phase = "ok"
         /\ Settle(w, IF tx[w].phase = "ok" THEN Reported(lost)
                      ELSE "InsufficientStockError", 0, lost)
    /\ UNCHANGED <<inventory, inv0, granted, restored,
                   uniqueExtId, api, input, orders, pay, sent>>

\* restoreInventory: increaseStock(items) in its transaction.
RestoreBegin(w) ==
    /\ wf[w].pc = "restoreInventory"
    /\ BeginStock(w, "inc", Len(input[w]))
    /\ UNCHANGED sagaVars

RestoreStep(w) ==
    /\ wf[w].pc = "restoreInventory"
    /\ \E i \in 1..Len(input[w]) : IncreaseItem(w, i, input[w][i])
    /\ UNCHANGED sagaVars

RestoreEnd(w) ==
    /\ wf[w].pc = "restoreInventory"
    /\ tx[w].phase \in {"ok", "error"}
    /\ tx' = [tx EXCEPT ![w] = IdleTx]
    /\ \E lost \in BOOLEAN :
         /\ lost => tx[w].phase = "ok"
         /\ Settle(w, IF tx[w].phase = "ok" THEN Reported(lost) ELSE "Error", 0, lost)
    /\ UNCHANGED <<inventory, inv0, granted, restored,
                   uniqueExtId, api, input, orders, pay, sent>>

StockCommit(w) == CommitStock(w) /\ UNCHANGED sagaVars
StockAbort(w) == AbortStock(w) /\ UNCHANGED sagaVars

\* notifyKitchen: NotificationService.notifyKitchen returns without notifying
\* when there is no item.
NotifyKitchen(w) ==
    /\ wf[w].pc = "notifyKitchen"
    /\ sent' = [sent EXCEPT ![w].kitchen = @ \/ Len(input[w]) > 0]
    /\ \E lost \in BOOLEAN : Settle(w, Reported(lost), 0, lost)
    /\ UNCHANGED <<invVars, uniqueExtId, api, input, orders, pay>>

SendConfirmationEmail(w) ==
    /\ wf[w].pc = "sendConfirmation"
    /\ sent' = [sent EXCEPT ![w].confirmation = TRUE]
    /\ \E lost \in BOOLEAN : Settle(w, Reported(lost), 0, lost)
    /\ UNCHANGED <<invVars, uniqueExtId, api, input, orders, pay>>

\* A refund step that also marks the order REFUNDED.
RefundPaymentMarking(w) ==
    /\ wf[w].pc = "refundPayment"
    /\ \E gwOk \in BOOLEAN, fault \in {"none", "find", "actFinal"},
          catchFault \in BOOLEAN, lost \in BOOLEAN :
         LET R == ActRefundPayment(pay[w], wf[w].paymentRecordId, gwOk, fault,
                                   catchFault)
         IN  /\ lost => R.res = "ok"
             /\ pay' = [pay EXCEPT ![w] = R.L]
             /\ orders' = [orders EXCEPT ![w] =
                             IF R.res = "ok" THEN WriteStatus(@, "REFUNDED") ELSE @]
             /\ Settle(w, IF lost THEN "Error" ELSE R.res, 0, lost \/ R.res = "Error")
    /\ UNCHANGED <<invVars, uniqueExtId, api, input, sent>>

RefundPayment(w) ==
    /\ wf[w].pc = "refundPayment"
    /\ \E gwOk \in BOOLEAN, fault \in {"none", "find", "actFinal"},
          catchFault \in BOOLEAN, lost \in BOOLEAN :
         LET R == ActRefundPayment(pay[w], wf[w].paymentRecordId, gwOk, fault,
                                   catchFault)
         IN  /\ lost => R.res = "ok"
             /\ pay' = [pay EXCEPT ![w] = R.L]
             /\ Settle(w, IF lost THEN "Error" ELSE R.res, 0, lost \/ R.res = "Error")
    /\ UNCHANGED <<invVars, uniqueExtId, api, input, orders, sent>>

SendFailureEmail(w) ==
    /\ wf[w].pc = "failureEmail"
    /\ sent' = [sent EXCEPT ![w].failure = wf[w].failureReason]
    /\ \E lost \in BOOLEAN : Settle(w, Reported(lost), 0, lost)
    /\ UNCHANGED <<invVars, uniqueExtId, api, input, orders, pay>>

\* The engine delivers a cancellation request while the run awaits a step: the
\* await rejects and the catch block runs in the cancelled root scope, where
\* the first compensation step it awaits is rejected before being scheduled
\* (no CancellationScope.nonCancellable surrounds it), so the inner catch
\* throws (no attempt of it ever runs); without orderId the run returns.
CancelWorkflow(w) ==
    /\ wf[w].pc \in Steps
    /\ tx[w].phase = "idle"
    /\ LET r   == Rejected(wf[w], "CancelledFailure")
           out == IF r.pc = "returned" THEN r
                  ELSE [r EXCEPT !.pc = "raised", !.attempt = 0]
           fwd == wf[w].pc \in ForwardSteps
       IN  /\ wf' = [wf EXCEPT ![w] = out]
           /\ log' = [log EXCEPT
                        ![w].failedStep = IF fwd THEN wf[w].pc ELSE @,
                        ![w].cause = IF fwd THEN "CancelledFailure" ELSE @,
                        ![w].compFailed =
                            IF out.pc # "raised" THEN @
                            ELSE IF fwd THEN r.pc ELSE wf[w].pc]
    /\ UNCHANGED <<invVars, uniqueExtId, api, input, orders, pay, sent>>

\* ------------------------------------------------------------- OrderService
\* catalog: the ids of the Product table. Per client: req, the items of the
\* CreateOrderDto it posted; response, what createOrder answered (kind
\* "accepted" with the workflowId, or the exception thrown); read, its last
\* getOrderStatusFromDb call (expected: the status its order had then, history).
NoResponse == [kind |-> "none", workflowId |-> "null"]
NoRead == [id |-> "null", result |-> "none", expected |-> "none"]

NoApi ==
    [catalog |-> Products,
     req |-> [c \in Callers |-> <<>>],
     response |-> [c \in Callers |-> NoResponse],
     read |-> [c \in Callers |-> NoRead]]

\* `order-wf-${uuidv4()}` and the uuid of the Order row, one per client.
WorkflowId(c) == [c1 |-> "order-wf-1", c2 |-> "order-wf-2", c3 |-> "order-wf-3"][c]
OrderId(c) == [c1 |-> "order-1", c2 |-> "order-2", c3 |-> "order-3"][c]

\* A lookup that reports every requested id as found.
FoundAssumed(catalog, items) == {items[i].productId : i \in 1..Len(items)}

\* prisma.product.findMany({ where: { id: { in: productIds } } }): the catalog
\* rows whose id is among the requested ones.
FoundProducts(catalog, items) ==
    {p \in catalog : \E i \in 1..Len(items) : items[i].productId = p}

\* createOrder: look the products up, reject with NotFoundException when the
\* number of rows found differs from the number of items, else start the
\* workflow and answer its id; a failed start is InternalServerErrorException,
\* whether or not the engine did start the run.
CreateOrder(c) ==
    /\ api.response[c].kind = "none"
    /\ wf[c].pc = "idle"
    /\ \E items \in OrderBatches, started \in BOOLEAN, answered \in BOOLEAN :
         LET products == FoundProducts(api.catalog, items)
             found    == Cardinality(products) = Len(items)
             run      == found /\ started
         IN  /\ (~found) => (started /\ answered)
             /\ (~started) => ~answered
             /\ api' = [api EXCEPT
                          !.req[c] = items,
                          !.response[c] =
                              IF ~found THEN [NoResponse EXCEPT !.kind = "NotFoundException"]
                              ELSE IF answered
                              THEN [kind |-> "accepted", workflowId |-> WorkflowId(c)]
                              ELSE [NoResponse EXCEPT
                                      !.kind = "InternalServerErrorException"]]
             /\ input' = IF run THEN [input EXCEPT ![c] = items] ELSE input
             /\ wf' = IF run THEN [wf EXCEPT ![c] = Then(IdleWf, "createPendingOrder")]
                      ELSE wf
             /\ log' = IF run THEN [log EXCEPT ![c].sched = <<"createPendingOrder">>]
                       ELSE log
    /\ UNCHANGED <<invVars, uniqueExtId, orders, pay, sent>>

\* getOrderStatusFromDb(id): prisma.order.findUnique({ where: { id } }); the
\* client passes the id createOrder answered or the id of its Order row.
GetOrderStatusFromDb(c) ==
    /\ api.response[c].kind = "accepted"
    /\ \E id \in {api.response[c].workflowId, OrderId(c)} :
         api' = [api EXCEPT !.read[c] =
                   [id |-> id,
                    result |-> IF id = OrderId(c) /\ orders[c].rows > 0
                               THEN orders[c].status ELSE "NotFoundException",
                    expected |-> orders[c].status]]
    /\ UNCHANGED <<invVars, uniqueExtId, input, wf, orders, pay, sent, log>>

\* --------------------------------------------------------------- one saga run
Runs == {"c1"}

IdleSaga ==
    /\ input = [c \in Callers |-> <<>>]
    /\ wf = [c \in Callers |-> IdleWf]
    /\ orders = [c \in Callers |-> NoOrder]
    /\ pay = [c \in Callers |-> EmptyLedger]
    /\ sent = [c \in Callers |-> NothingSent]
    /\ log = [c \in Callers |-> EmptyLog]
    /\ api = NoApi

Init ==
    /\ inventory \in InventoryTables
    /\ inv0 = inventory
    /\ granted = ZeroDelta
    /\ restored = ZeroDelta
    /\ tx = [c \in Callers |-> IdleTx]
    /\ uniqueExtId \in BOOLEAN
    /\ IdleSaga

Next ==
    \E w \in Runs :
        \/ StartWorkflow(w)
        \/ AttemptFails(w)
        \/ CreatePendingOrder(w)
        \/ UpdateOrderStatus(w)
        \/ ChargePayment(w)
        \/ DecreaseBegin(w)
        \/ DecreaseStep(w)
        \/ DecreaseEnd(w)
        \/ StockCommit(w)
        \/ StockAbort(w)
        \/ NotifyKitchen(w)
        \/ SendConfirmationEmail(w)
        \/ RefundPayment(w)
        \/ RestoreBegin(w)
        \/ RestoreStep(w)
        \/ RestoreEnd(w)
        \/ SendFailureEmail(w)

Spec == Init /\ [][Next]_vars

\* The run, with cancellation requests.
NextCancel ==
    \/ Next
    \/ \E w \in Runs : CancelWorkflow(w)

SpecCancel == Init /\ [][NextCancel]_vars

\* ------------------------------------------- InventoryService called directly
\* Callers invoke decreaseStock / increaseStock once each, concurrently; the
\* items of a batch are drawn as they are processed.
InitInv ==
    /\ inventory \in InventoryTables
    /\ inv0 = inventory
    /\ granted = ZeroDelta
    /\ restored = ZeroDelta
    /\ tx = [c \in Callers |-> IdleTx]
    /\ uniqueExtId = TRUE
    /\ IdleSaga

CallStock(c) ==
    /\ \E op \in {"dec", "inc"}, n \in BatchLengths : BeginStock(c, op, n)
    /\ UNCHANGED sagaVars

NextItem(c) == CHOOSE i \in (1..tx[c].n) \ tx[c].done : TRUE

StepDecrease(c) ==
    /\ tx[c].phase = "open" /\ tx[c].done # 1..tx[c].n
    /\ \E item \in StockUpdateItem : DecreaseItem(c, NextItem(c), item)
    /\ UNCHANGED sagaVars

StepIncrease(c) ==
    /\ tx[c].phase = "open" /\ tx[c].done # 1..tx[c].n
    /\ \E item \in StockUpdateItem : IncreaseItem(c, NextItem(c), item)
    /\ UNCHANGED sagaVars

NextInv ==
    \E c \in Callers :
        \/ CallStock(c)
        \/ StepDecrease(c)
        \/ StepIncrease(c)
        \/ StockCommit(c)
        \/ StockAbort(c)

SpecInv == InitInv /\ [][NextInv]_vars

\* ================================================================ properties
Range(q) == {q[i] : i \in 1..Len(q)}
Occurrences(q, x) == Cardinality({i \in 1..Len(q) : q[i] = x})
IsPrefix(a, b) == Len(a) <= Len(b) /\ \A i \in 1..Len(a) : a[i] = b[i]
Ended(w) == wf[w].pc \in {"returned", "raised"}

\* ------------------------------- InventoryService called by one client in turn
\* One client holds a batch and calls decreaseStock(batch) and then
\* increaseStock(batch), or increaseStock(batch) alone; nobody else touches
\* the table. The decrease is call "c1", the increase is call "c2".
StockBatches ==
    UNION {[1..n -> StockUpdateItem] : n \in BatchLengths}

InitSeq ==
    /\ inventory \in InventoryTables
    /\ inv0 = inventory
    /\ granted = ZeroDelta
    /\ restored = ZeroDelta
    /\ tx = [c \in Callers |-> IdleTx]
    /\ uniqueExtId = TRUE
    /\ IdleSaga

SeqChooseBatch ==
    /\ input["c1"] = <<>> /\ tx["c1"].phase = "idle" /\ tx["c2"].phase = "idle"
    /\ \E items \in StockBatches \ {<<>>} :
         input' = [input EXCEPT !["c1"] = items]
    /\ UNCHANGED <<invVars, uniqueExtId, api, wf, orders, pay, sent, log>>

SeqDecrease ==
    /\ tx["c2"].phase = "idle"
    /\ BeginStock("c1", "dec", Len(input["c1"]))
    /\ UNCHANGED sagaVars

SeqDecreaseItem ==
    /\ \E i \in 1..Len(input["c1"]) : DecreaseItem("c1", i, input["c1"][i])
    /\ UNCHANGED sagaVars

SeqIncrease ==
    /\ tx["c1"].phase # "open"
    /\ BeginStock("c2", "inc", Len(input["c1"]))
    /\ UNCHANGED sagaVars

SeqIncreaseItem ==
    /\ \E i \in 1..Len(input["c1"]) : IncreaseItem("c2", i, input["c1"][i])
    /\ UNCHANGED sagaVars

NextSeq ==
    \/ SeqChooseBatch
    \/ SeqDecrease
    \/ SeqDecreaseItem
    \/ SeqIncrease
    \/ SeqIncreaseItem
    \/ \E c \in {"c1", "c2"} : StockCommit(c)
    \/ \E c \in {"c1", "c2"} : StockAbort(c)

SpecSeq == InitSeq /\ [][NextSeq]_vars


\* ------------------------------------------- OrderService called by one client
\* The catalog holds at least the products that have an inventory row (the
\* row's foreign key). The run the request starts is followed through its
\* first steps, createPendingOrder and the status writes; no later step
\* writes the Order row's id or workflowId.
InitOrder ==
    /\ inventory \in InventoryTables
    /\ inv0 = inventory
    /\ granted = ZeroDelta
    /\ restored = ZeroDelta
    /\ tx = [c \in Callers |-> IdleTx]
    /\ uniqueExtId = TRUE
    /\ input = [c \in Callers |-> <<>>]
    /\ wf = [c \in Callers |-> IdleWf]
    /\ orders = [c \in Callers |-> NoOrder]
    /\ pay = [c \in Callers |-> EmptyLedger]
    /\ sent = [c \in Callers |-> NothingSent]
    /\ log = [c \in Callers |-> EmptyLog]
    /\ \E catalog \in SUBSET Products :
         /\ DOMAIN inventory \subseteq catalog
         /\ api = [NoApi EXCEPT !.catalog = catalog]

NextOrder ==
    \E c \in Runs :
        \/ CreateOrder(c)
        \/ AttemptFails(c)
        \/ CreatePendingOrder(c)
        \/ UpdateOrderStatus(c)
        \/ GetOrderStatusFromDb(c)

SpecOrder == InitOrder /\ [][NextOrder]_vars

\* C1: under concurrent, overlapping decreaseStock calls the quantities granted
\* for a product (the committed batches) never exceed what was available (the
\* initial quantity plus what committed increases put back), no quantity is
\* ever negative, and nothing is granted for a product without a row.
C1_NoOversell ==
    /\ \A p \in DOMAIN inventory :
          inventory[p] >= 0 /\ granted[p] <= inv0[p] + restored[p]
    /\ \A p \in Products \ DOMAIN inventory : granted[p] = 0

\* Two callers were granted the whole stock of a product between them and a
\* third, competing for it, was refused.
C1_Witness ==
    \E p \in DOMAIN inventory :
        /\ inv0[p] = MaxStock /\ restored[p] = 0
        /\ granted[p] = inv0[p] /\ inventory[p] = 0
        /\ tx["c1"].op = "dec" /\ tx["c1"].phase = "ok" /\ tx["c1"].matched
        /\ tx["c2"].op = "dec" /\ tx["c2"].phase = "ok" /\ tx["c2"].matched
        /\ tx["c3"].op = "dec" /\ tx["c3"].phase = "insufficient"

\* C3: decreaseStock is all-or-nothing per batch: every row's quantity is the
\* initial quantity minus the committed decreases plus the committed
\* increases, so a batch that raised InsufficientStockError (or any batch not
\* committed) has changed no row, and after the raise none of its writes is
\* left.
C3_BatchAllOrNothing ==
    /\ \A p \in DOMAIN inventory :
          inventory[p] = inv0[p] - granted[p] + restored[p]
    /\ \A c \in Callers :
          tx[c].phase = "insufficient" => tx[c].delta = ZeroDelta

\* A batch whose first item matched a row and whose second item matched none
\* raised, and the table is as it was before the call.
C3_Witness ==
    /\ tx["c1"].op = "dec" /\ tx["c1"].phase = "insufficient" /\ tx["c1"].matched
    /\ tx["c2"].phase = "idle" /\ tx["c3"].phase = "idle"
    /\ inventory = inv0
    /\ \E p \in DOMAIN inventory : inventory[p] > 0

\* ------------------------------------------------------ properties of a run
HappyPath == <<"PENDING", "PROCESSING", "PAID", "AWAITING_FULFILLMENT", "COMPLETED">>
TerminalStatuses == {"COMPLETED", "PAYMENT_FAILED", "INVENTORY_CHECK_FAILED", "CANCELLED"}
StockReason == "One or more items are out of stock."

\* The row the chargePayment activity created in its latest attempt.
LastActivityRow(L) ==
    CHOOSE i \in 1..Len(L.rows) :
        /\ L.rows[i].by = "activity"
        /\ \A j \in (i + 1)..Len(L.rows) : L.rows[j].by # "activity"

\* C2: once a run has ended, (a) a charge the gateway accepted and did not
\* refund implies the order is COMPLETED, and (b) a committed stock decrement
\* that was not restored implies the order is COMPLETED.
C2_NeverInconsistent ==
    \A w \in Runs :
        Ended(w) =>
            /\ pay[w].charges > pay[w].refunds => orders[w].status = "COMPLETED"
            /\ (\E p \in Products : granted[p] > restored[p])
                  => orders[w].status = "COMPLETED"

C8_NeverRaises == \A w \in Runs : wf[w].pc # "raised"

\* C8, amended: a run ends by raising exactly when one of its compensation
\* steps failed (its retries exhausted); every other run that ends, also one
\* in which a forward step failed, returns its finalStatus.
C8_ReturnsUnlessCompensationFails ==
    \A w \in Runs :
        /\ wf[w].pc = "raised" <=> log[w].compFailed # "none"
        /\ (Ended(w) /\ log[w].compFailed = "none") => wf[w].pc = "returned"
        /\ log[w].compFailed # "none" => log[w].failedStep # "none"

\* A run in which a forward step failed and every compensation step resolved
\* has returned.
C8_Witness ==
    \E w \in Runs :
        /\ wf[w].pc = "returned" /\ log[w].failedStep = "chargePayment"
        /\ log[w].compFailed = "none"
        /\ {"compStatus", "failureEmail"} \subseteq log[w].ok

C10_CreateFailureNoEffects ==
    \A w \in Runs :
        log[w].failedStep = "createPendingOrder" =>
            /\ log[w].sched = <<"createPendingOrder">>
            /\ pay[w] = EmptyLedger
            /\ inventory = inv0 /\ granted = ZeroDelta /\ restored = ZeroDelta
            /\ tx[w] = IdleTx
            /\ orders[w].status = "none" /\ orders[w].hist = <<>>
            /\ sent[w] = NothingSent
            /\ wf[w].pc = "returned" /\ wf[w].finalStatus = "CANCELLED"
            /\ ~wf[w].orderId

\* createPendingOrder failed on each of its attempts and the run is over.
C10_Witness ==
    \E w \in Runs :
        /\ log[w].failedStep = "createPendingOrder"
        /\ wf[w].pc = "returned" /\ wf[w].attempt = ForwardMaxAttempts
        /\ \E p \in DOMAIN inventory : inventory[p] > 0

FinalStatuses == TerminalStatuses \cup {"REFUNDED"}

\* A change of the persisted status the state machine allows.
AllowedStatusChange(a, b) ==
    \/ \E i \in 1..(Len(HappyPath) - 1) : a = HappyPath[i] /\ b = HappyPath[i + 1]
    \/ /\ a \notin FinalStatuses
       /\ b \in {"PAYMENT_FAILED", "INVENTORY_CHECK_FAILED", "CANCELLED", "REFUNDED"}

AllowedPaymentChange(a, b) ==
    <<a, b>> \in {<<"PENDING", "SUCCEEDED">>, <<"PENDING", "FAILED">>,
                  <<"SUCCEEDED", "REFUND_INITIATED">>,
                  <<"REFUND_INITIATED", "REFUNDED">>,
                  <<"REFUND_INITIATED", "REFUND_FAILED">>}

RECURSIVE RequestedUpTo(_, _, _)
RequestedUpTo(items, p, n) ==
    IF n = 0 THEN 0
    ELSE RequestedUpTo(items, p, n - 1)
         + IF items[n].productId = p THEN items[n].quantity ELSE 0

Requested(items, p) == RequestedUpTo(items, p, Len(items))

\* C15: decreaseStock of a batch followed by increaseStock of the same batch,
\* both resolved and nothing else writing in between, leaves every row's
\* quantity at its value before the decrease; in between, each row was lower
\* by exactly what the batch asks of it.
C15_DecreaseIncreaseRoundTrip ==
    (tx["c1"].op = "dec" /\ tx["c1"].phase = "ok") =>
        /\ tx["c2"].phase \in {"idle", "open", "error"} =>
              \A p \in DOMAIN inventory :
                  inventory[p] = inv0[p] - Requested(input["c1"], p)
        /\ (tx["c2"].op = "inc" /\ tx["c2"].phase = "ok") => inventory = inv0

\* A batch of two items on two products was taken and put back.
C15_Witness ==
    /\ tx["c1"].op = "dec" /\ tx["c1"].phase = "ok"
    /\ tx["c2"].op = "inc" /\ tx["c2"].phase = "ok"
    /\ \A p \in Products : granted[p] > 0 /\ restored[p] = granted[p]
    /\ inventory = inv0

\* C16: increaseStock never creates a row; finding that an item's product has
\* no row does not end the call (the item counts as processed and the
\* transaction stays open); and an increaseStock that resolved, called on an
\* untouched table, has raised every existing row by what the batch asks of
\* it, whether or not the batch also names products without a row.
C16_IncreaseLenient ==
    /\ [](/\ DOMAIN inventory = DOMAIN inv0
          /\ (/\ tx["c1"].phase \in {"idle", "insufficient", "error"}
              /\ tx["c2"].op = "inc" /\ tx["c2"].phase = "ok") =>
                 \A p \in DOMAIN inventory :
                     inventory[p] = inv0[p] + Requested(input["c1"], p))
    /\ [][(/\ tx["c2"].op = "inc" /\ tx["c2"].phase = "open"
           /\ ~tx["c2"].missing /\ tx'["c2"].missing) =>
              /\ tx'["c2"].phase = "open"
              /\ Cardinality(tx'["c2"].done) = Cardinality(tx["c2"].done) + 1]_vars

\* An increase alone, of a batch naming a product without a row and a product
\* with one, resolved and raised the existing row.
C16_Witness ==
    /\ tx["c1"].phase = "idle"
    /\ tx["c2"].op = "inc" /\ tx["c2"].phase = "ok"
    /\ tx["c2"].missing /\ tx["c2"].matched
    /\ \E i \in 1..Len(input["c1"]) :
          /\ input["c1"][i].productId \notin DOMAIN inventory
          /\ input["c1"][i].quantity > 0
    /\ \E p \in DOMAIN inventory :
          Requested(input["c1"], p) > 0 /\ inventory[p] = inv0[p] + Requested(input["c1"], p)

C19_UnknownProductRejected ==
    \A c \in Runs :
        (\E i \in 1..Len(api.req[c]) : api.req[c][i].productId \notin api.catalog) =>
            /\ api.response[c].kind = "NotFoundException"
            /\ wf[c] = IdleWf /\ log[c] = EmptyLog /\ input[c] = <<>>
            /\ orders[c] = NoOrder
            /\ pay[c] = EmptyLedger
            /\ inventory = inv0

\* A request of two items, one in the catalog and in stock, one unknown, was
\* rejected.
C19_Witness ==
    \E c \in Runs :
        /\ Len(api.req[c]) = 2
        /\ api.req[c][1].productId \in DOMAIN inventory
        /\ inventory[api.req[c][1].productId] >= api.req[c][1].quantity
        /\ api.req[c][2].productId \notin api.catalog
        /\ api.response[c].kind = "NotFoundException"

\* C20: once the run started under the answered correlation id has created
\* its order, the Order row carries that id in workflowId, and a status read
\* made with the correlation id returns the order's status.
C20_CorrelationIdFindsOrder ==
    \A c \in Runs :
        (api.response[c].kind = "accepted" /\ orders[c].rows > 0) =>
            /\ orders[c].workflowId = api.response[c].workflowId
            /\ (api.read[c].id = api.response[c].workflowId
                /\ api.read[c].expected # "none") =>
                   api.read[c].result = api.read[c].expected

\* The compensation steps the catch block's guards call for in a failed run.
ApplicableCompSteps(rec) ==
    (IF RefundDue(rec) THEN {"refundPayment"} ELSE {})
        \cup (IF RestoreDue(rec) THEN {"restoreInventory"} ELSE {})
        \cup {"compStatus", "failureEmail"}

\* C21: in a failed run with an order, every applicable compensation step has
\* been attempted by the time the run ends, even when an earlier compensation
\* step failed.
C21_CompensationBestEffort ==
    \A w \in Runs :
        (Ended(w) /\ log[w].failedStep # "none" /\ CompensationPossible(wf[w])
         /\ log[w].cause # "CancelledFailure") =>
            ApplicableCompSteps(wf[w]) \subseteq Range(log[w].sched)

\* The Error thrown by the inner catch: it names the compensation failure and
\* the original failure.
CriticalError(l) == [compensation |-> l.compFailed, original |-> l.cause]

GatewayDeclines(L) ==
    Cardinality({r \in 1..Len(L.rows) : L.rows[r].by = "service"}) - L.charges

\* The order asks more of some product than the table held at the start.
Shortage(items) ==
    \E p \in Products :
        /\ Requested(items, p) > 0
        /\ p \in DOMAIN inv0 => Requested(items, p) > inv0[p]

\* C23: an infrastructure failure inside a forward step never ends as a
\* business failure: a run classified PAYMENT_FAILED had its charge declined
\* by the gateway, and a run classified INVENTORY_CHECK_FAILED (no attempt's
\* result lost) asked for more stock than there was; any other failure of a
\* forward step ends CANCELLED after the last attempt.
C23_InfrastructureFailureIsGeneric ==
    \A w \in Runs :
        log[w].failedStep # "none" =>
            /\ wf[w].finalStatus = "PAYMENT_FAILED" => GatewayDeclines(pay[w]) > 0
            /\ (wf[w].finalStatus = "INVENTORY_CHECK_FAILED" /\ log[w].lost = 0) =>
                  Shortage(input[w])

\* The rows chargePayment itself marked FAILED: one per invocation that raised
\* PaymentFailedError.
DeclinedAttempts(L) ==
    {r \in 1..Len(L.rows) : L.rows[r].by = "activity" /\ L.rows[r].status = "FAILED"}

\* C24: once an invocation of chargePayment has raised PaymentFailedError the
\* run is past its forward steps, classified PAYMENT_FAILED, and no second
\* invocation has raised it; and the invocation of validateAndDecreaseInventory
\* that raises InsufficientStockError takes the run straight out of its forward
\* steps, classified INVENTORY_CHECK_FAILED, and no decrease is begun after it.
C24_BusinessFailuresNotRetried ==
    /\ [](\A w \in Runs :
            DeclinedAttempts(pay[w]) # {} =>
                /\ Cardinality(DeclinedAttempts(pay[w])) = 1
                /\ wf[w].pc \notin ForwardSteps
                /\ log[w].failedStep = "chargePayment"
                /\ log[w].cause = "PaymentFailedError"
                /\ wf[w].finalStatus = "PAYMENT_FAILED")
    /\ [][\A w \in Runs :
            /\ (/\ wf[w].pc = "decreaseInventory"
                /\ tx[w].phase \in {"insufficient", "error"}
                /\ tx'[w].phase = "idle") =>
                  /\ wf'[w].pc \notin ForwardSteps
                  /\ log'[w].failedStep = "decreaseInventory"
                  /\ wf'[w].finalStatus = "INVENTORY_CHECK_FAILED"
            /\ log[w].cause = "InsufficientStockError" => tx'[w].op # "dec"
            /\ log[w].cause = "PaymentFailedError" =>
                  Len(pay'[w].rows) = Len(pay[w].rows)]_vars

\* The gateway declined the first charge; the step was scheduled once and the
\* run went on to the compensating status update.
C24_Witness ==
    \E w \in Runs :
        /\ GatewayDeclines(pay[w]) = 1
        /\ Cardinality(DeclinedAttempts(pay[w])) = 1
        /\ Len(pay[w].rows) = 2
        /\ log[w].sched =
              <<"createPendingOrder", "markProcessing", "chargePayment", "compStatus">>
        /\ wf[w].pc = "compStatus"

\* The rows a refund was ever started on.
RefundStarted(L) ==
    {r \in 1..Len(L.rows) : "REFUND_INITIATED" \in Range(L.rows[r].hist)}

ChargeInvocations(L) == {r \in 1..Len(L.rows) : L.rows[r].by = "activity"}

\* C27: the order has exactly one PaymentTransaction row per invocation of the
\* chargePayment step, each created in status PENDING.
C27_OneRowPerChargeAttempt ==
    \A w \in Runs :
        /\ Len(pay[w].rows) = Cardinality(ChargeInvocations(pay[w]))
        /\ \A r \in 1..Len(pay[w].rows) : pay[w].rows[r].hist[1] = "PENDING"

\* C28: when chargePayment was invoked more than once for the order, the run
\* ends with at most one accepted gateway charge not refunded by the gateway,
\* and with none unless the order is COMPLETED.
C28_DuplicateChargeTolerated ==
    \A w \in Runs :
        (Ended(w) /\ Cardinality(ChargeInvocations(pay[w])) > 1) =>
            pay[w].charges - pay[w].refunds
                <= IF orders[w].status = "COMPLETED" THEN 1 ELSE 0

\* a occurs before b in the sequence q.
Before(q, a, b) == \E i, j \in 1..Len(q) : i < j /\ q[i] = a /\ q[j] = b

RECURSIVE EventsUpTo(_, _)
EventsUpTo(l, n) ==
    IF n = 0 THEN <<>>
    ELSE LET s    == l.sched[n]
             prev == EventsUpTo(l, n - 1)
         IN  IF s \in l.ok
             THEN Append(prev, [outcome |-> "ok",
                                rid |-> IF s = "chargePayment" THEN l.rid ELSE 0])
             ELSE IF s = l.failedStep
             THEN Append(prev, [outcome |-> l.cause, rid |-> 0])
             ELSE IF s = l.compFailed
             THEN Append(prev, [outcome |-> "Error", rid |-> 0])
             ELSE prev

Events(l) == EventsUpTo(l, Len(l.sched))

\* processOrderWorkflow executed again from its start against a recorded
\* event history: each await takes the recorded result of its step. Gives the
\* locals reached and the steps the execution asked for, in order.
RECURSIVE ReplayUpTo(_, _)
ReplayUpTo(events, n) ==
    IF n = 0
    THEN [rec |-> Then(IdleWf, "createPendingOrder"),
          sched |-> <<"createPendingOrder">>]
    ELSE LET prev == ReplayUpTo(events, n - 1)
             e    == events[n]
             nxt  == IF e.outcome = "ok" THEN Resolved(prev.rec, e.rid)
                     ELSE Rejected(prev.rec, e.outcome)
         IN  [rec |-> nxt,
              sched |-> IF nxt.pc \in Steps THEN Append(prev.sched, nxt.pc)
                        ELSE prev.sched]

Replay(events) == ReplayUpTo(events, Len(events))

\* The locals of the orchestration, without the engine's attempt counter.
Locals(rec) == [rec EXCEPT !.attempt = 0]

\* The run's state agrees with what a second execution reaches on the events.
Reproduced(rec, l) ==
    LET again == Replay(Events(l))
    IN  /\ again.sched = l.sched
        /\ Locals(again.rec) = Locals(rec)

RefundCompensated(w) ==
    /\ log[w].failedStep # "none"
    /\ "chargePayment" \in log[w].ok
    /\ "refundPayment" \in log[w].ok

\* C31: the order status REFUNDED is reached after successful compensation: a
\* failing run whose charge succeeded and whose refund compensation succeeded
\* has, once it returned, brought the order's persisted status to REFUNDED.
C31_RefundedAfterCompensation ==
    \A w \in Runs :
        (wf[w].pc = "returned" /\ RefundCompensated(w)) =>
            "REFUNDED" \in Range(orders[w].hist)

\* No order row ever has the status REFUNDED, in any run.
OrderNeverRefunded ==
    \A w \in Runs :
        orders[w].status # "REFUNDED" /\ "REFUNDED" \notin Range(orders[w].hist)

\* ------------------------------------------------------- a run, fairly scheduled
\* The engine ends every attempt it starts (by its result or by
\* startToCloseTimeout) and schedules the next attempt or step after a finite
\* delay, so a run is never left waiting for ever. Termination does not depend
\* on the quantities in stock: the run starts from a table with one row, which
\* gives the decrease both of its outcomes.
InitLive ==
    /\ inventory \in [{"pA"} -> 0..MaxStock]
    /\ inv0 = inventory
    /\ granted = ZeroDelta
    /\ restored = ZeroDelta
    /\ tx = [c \in Callers |-> IdleTx]
    /\ uniqueExtId \in BOOLEAN
    /\ IdleSaga

SpecLive == InitLive /\ [][Next]_vars /\ WF_vars(Next)

StatusSteps == {"markProcessing", "markPaid", "markAwaiting", "markCompleted", "compStatus"}

Invoked(w, step) == step \in Range(log[w].sched)

ConcRuns == {"c1", "c2"}

InitConc ==
    /\ inventory \in [{"pA"} -> 0..MaxStock]
    /\ inv0 = inventory
    /\ granted = ZeroDelta
    /\ restored = ZeroDelta
    /\ tx = [c \in Callers |-> IdleTx]
    /\ uniqueExtId = FALSE
    /\ IdleSaga

AttemptsExhausted(w) ==
    /\ wf[w].pc \in Steps
    /\ tx[w].phase = "idle"
    /\ wf' = [wf EXCEPT ![w] = Rejected(wf[w], "Error")]
    /\ log' = [log EXCEPT ![w] =
                 Logged(log[w], wf[w], Rejected(wf[w], "Error"), "Error", FALSE)]
    /\ UNCHANGED <<invVars, uniqueExtId, api, input, orders, pay, sent>>

\* The step taken leaves no attempt that failed after its first write.
EffectsOnce(w) == log'[w].lost = 0

NextConc ==
    \E w \in ConcRuns :
        \/ StartWorkflow(w) /\ Len(input'[w]) = 1
        \/ AttemptsExhausted(w) /\ EffectsOnce(w)
        \/ CreatePendingOrder(w) /\ EffectsOnce(w)
        \/ UpdateOrderStatus(w) /\ EffectsOnce(w)
        \/ ChargePayment(w) /\ EffectsOnce(w)
        \/ DecreaseBegin(w) /\ EffectsOnce(w)
        \/ DecreaseStep(w) /\ EffectsOnce(w)
        \/ DecreaseEnd(w) /\ EffectsOnce(w)
        \/ StockCommit(w) /\ EffectsOnce(w)
        \/ StockAbort(w) /\ EffectsOnce(w)
        \/ NotifyKitchen(w) /\ EffectsOnce(w)
        \/ SendConfirmationEmail(w) /\ EffectsOnce(w)
        \/ RefundPayment(w) /\ EffectsOnce(w)
        \/ RestoreBegin(w) /\ EffectsOnce(w)
        \/ RestoreStep(w) /\ EffectsOnce(w)
        \/ RestoreEnd(w) /\ EffectsOnce(w)
        \/ SendFailureEmail(w) /\ EffectsOnce(w)

SpecConc == InitConc /\ [][NextConc]_vars

\* What the orders that ended COMPLETED asked of product p.
CompletedDemand(p) ==
    (IF orders["c1"].status = "COMPLETED" THEN Requested(input["c1"], p) ELSE 0)
  + (IF orders["c2"].status = "COMPLETED" THEN Requested(input["c2"], p) ELSE 0)

StockConserved ==
    \A p \in DOMAIN inventory : inventory[p] = inv0[p] - CompletedDemand(p)

StockConservedWhenReturned ==
    (\A w \in ConcRuns : wf[w].pc = "returned") => StockConserved

\* Some requested product id is absent from the catalog.
SomeProductAbsent(c) ==
    \E i \in 1..Len(api.req[c]) : api.req[c][i].productId \notin api.catalog

\* C39: createOrder raises the not-found rejection if and only if at least one
\* requested product id is absent from the catalog; a request whose product
\* ids all exist, the same id in several items included, is not rejected as
\* not-found, and a request that is rejected starts no workflow.
C39_NotFoundIffAbsent ==
    \A c \in Runs :
        api.response[c].kind # "none" =>
            /\ api.response[c].kind = "NotFoundException" <=> SomeProductAbsent(c)
            /\ api.response[c].kind = "NotFoundException" => wf[c].pc = "idle"

====
